---- MODULE Spec2Model ----
(***************************************************************************)
(* A model of rwgen/rainfall/simulation.py: the block-wise realisation     *)
(* loop (simulate_realisation), the discretisation kernels                 *)
(* (discretise_point, discretise_spatial), the output writer               *)
(* (write_output), the output path table (make_output_paths), the static   *)
(* metadata preparation (get_phi, get_catchment_weights), the catchment    *)
(* averages of discretise_by_point, main's loop over the realisations,     *)
(* make_phi_interpolator and the probe allocation of the sizing loop.      *)
(*                                                                         *)
(* Each part has its own specification over the variables it uses; the     *)
(* variables of the other parts are held at their idle values.             *)
(***************************************************************************)
EXTENDS Integers, Sequences, FiniteSets, TLC

VARIABLES
    \* ---- simulate_realisation ----
    realisation_id,     \* argument realisation_id
    seed_sequence,      \* the SeedSequence object shared by the run
    number_of_years,    \* argument number_of_years
    pc,                 \* "sizing" | "simulating" | "done" | "aborted" | "idle"
    block_size,         \* local block_size
    block_id,           \* local block_id
    rng,                \* local rng (the generator's state)
    exc,                \* the exception raised by the last step ("none" if none)
    tried,              \* history: the block sizes the sizing pass has tried
    failed_late,        \* history: a memory failure has hit a block index > 0
    sizing_drew,        \* history: the sizing pass has drawn random numbers
    rng_at_sizing,      \* history: the generator's state when sizing began
    \* ---- discretise_point / discretise_spatial ----
    kphase,             \* "fresh" | "used" | "final" | "idle"
    boundscheck,        \* whether the compiled kernels check array bounds
    spatial_model,      \* argument spatial_model
    point_phi,          \* phi of each output location (spatial model)
    discrete_rainfall,  \* the reused buffer: location column -> timestep -> depth
    kcall,              \* the arguments of the last kernel call
    kexc,               \* the exception the last kernel call raised
    wild_write,         \* the last call wrote outside the buffer
    \* ---- write_output ----
    files,              \* the text of the file of each output key
    series,             \* history: the values handed to write_output, per key
    n_writes,           \* the number of write_output calls so far
    \* ---- make_output_paths ----
    ppc,                \* "start" | "looping" | "returned" | "raised" | "idle"
    p_args,             \* the arguments of make_output_paths
    p_pos,              \* the output types handled so far
    output_paths,       \* local output_paths
    p_exc,              \* the exception raised ("none" if none)
    \* ---- get_phi / get_catchment_weights ----
    mpc,                \* "created" | "phi_done" | "done" | "raised" | "idle"
    m_args,             \* the run's output types, DEM, phi field and weights
    discretisation_metadata,    \* the dictionary discretisation_metadata
    m_exc,              \* the exception raised ("none" if none)
    \* ---- discretise_by_point: the catchment averages of a month ----
    cpc,                \* "averaging" | "done" | "raised" | "idle"
    c_args,             \* the grid buffer, the weights, the month's timesteps
    c_idx,              \* local idx: the catchments handled so far
    catchment_output,   \* output_array of each catchment handled
    c_exc,              \* the exception raised ("none" if none)
    \* ---- main: the loop over the realisations ----
    rpc,                \* "seeding" | "looping" | "sizing" | "resetting" |
                        \* "simulating" | "finished" | "raised" | "idle"
    r_args,             \* random_seed, number_of_realisations, simulation_length
    r_seed_sequence,    \* local seed_sequence of main
    r_realisation_id,   \* the realisation id of the current call (0: none yet)
    r_rng,              \* local rng of the current simulate_realisation call
    r_streams,          \* history: the generator states each realisation began with
    r_exc,              \* the exception that ended the run ("none" if none)
    \* ---- make_phi_interpolator ----
    ipc,                \* "testing" | "selecting" | "kriging" | "returned" |
                        \* "raised" | "idle"
    i_args,             \* include_elevation and the two regressions' results
    significant_regression, \* local: "True" | "False" | "unbound"
    log_transformation, \* local: "True" | "False" | "unbound"
    i_phi,              \* local phi: "log" | "untransformed" | "unbound"
    i_result,           \* the pair returned
    i_exc,              \* the exception raised ("none" if none)
    \* ---- simulate_realisation: the probe allocation of the sizing loop ----
    qpc,                \* "sizing" | "sized" | "raised" | "idle"
    q_args,             \* start_year, number_of_years, points, catchments
    q_block_size,       \* local block_size
    q_block_id,         \* local block_id
    dummy2,             \* the probe allocation held: its block and element count
    q_exc               \* the exception of the last iteration ("none" if none)

simVars == <<realisation_id, seed_sequence, number_of_years, pc, block_size,
             block_id, rng, exc, tried, failed_late, sizing_drew, rng_at_sizing>>

kernVars == <<kphase, boundscheck, spatial_model, point_phi, discrete_rainfall,
              kcall, kexc, wild_write>>

writeVars == <<files, series, n_writes>>

pathVars == <<ppc, p_args, p_pos, output_paths, p_exc>>

metaVars == <<mpc, m_args, discretisation_metadata, m_exc>>

avgVars == <<cpc, c_args, c_idx, catchment_output, c_exc>>

\* The variables of the parts added to the first five.
runVars == <<rpc, r_args, r_seed_sequence, r_realisation_id, r_rng, r_streams,
             r_exc>>

interpVars == <<ipc, i_args, significant_regression, log_transformation, i_phi,
                i_result, i_exc>>

probeVars == <<qpc, q_args, q_block_size, q_block_id, dummy2, q_exc>>

laterVars == <<avgVars, runVars, interpVars, probeVars>>

vars == <<simVars, kernVars, writeVars, pathVars, metaVars, laterVars>>

notSim == <<kernVars, writeVars, pathVars, metaVars, laterVars>>
notKern == <<simVars, writeVars, pathVars, metaVars, laterVars>>
notWrite == <<simVars, kernVars, pathVars, metaVars, laterVars>>
notPaths == <<simVars, kernVars, writeVars, metaVars, laterVars>>
notMeta == <<simVars, kernVars, writeVars, pathVars, laterVars>>
firstVars == <<simVars, kernVars, writeVars, pathVars, metaVars>>
notAvg == <<firstVars, runVars, interpVars, probeVars>>
notRun == <<firstVars, avgVars, interpVars, probeVars>>
notInterp == <<firstVars, avgVars, runVars, probeVars>>
notProbe == <<firstVars, avgVars, runVars, interpVars>>

(***************************************************************************)
(* Bounds of the model.                                                    *)
(***************************************************************************)
MaxYears == 3
MaxRealisations == 2
MaxSeed == 1
MaxDraws == 2
RngPeriod == 3
MaxSpin == 3

\* Lengths of realisation the model runs: short ones, a 900-year one, and
\* one longer than the cap on the first candidate block size.
YearsDomain == (1..MaxYears) \cup {900, 1001}

Min(a, b) == IF a <= b THEN a ELSE b
Max(a, b) == IF a >= b THEN a ELSE b

(***************************************************************************)
(* The random source.  A generator's state is the key derived from the     *)
(* seed sequence and its position in the stream; the stream is periodic.   *)
(***************************************************************************)
\* np.random.default_rng(seed_sequence): the key is generated from the seed
\* sequence's entropy; generating it does not change the seed sequence.
default_rng(ss) == [key |-> ss.entropy, pos |-> 0]

\* nsproc.main draws d numbers from the stream it is handed.
Advance(r, d) == [r EXCEPT !.pos = (r.pos + d) % RngPeriod]

(***************************************************************************)
(* simulate_realisation: block arithmetic.                                 *)
(***************************************************************************)
BlockSizeCap == 1000

\* block_size = min(number_of_years, 1000)
InitialBlockSize_cap(n) == BlockSizeCap
InitialBlockSize(n) == Min(n, BlockSizeCap)

\* while block_id * block_size < number_of_years
LoopGuard(bid, bs, n) == bid * bs < n

\* block_size = int(np.floor(block_size / 2))
HalveBlockSize_ceil(bs) == (bs + 1) \div 2
HalveBlockSize(bs) == bs \div 2

\* datetime_helper has 12 rows per year; values[idx1:idx2] is clipped to it.
SliceLen(idx1, idx2, len) == Max(0, Min(idx2, len) - Min(idx1, len))

\* The number of months of block bid: idx1 = block_id * block_size * 12,
\* idx2 = (block_id + 1) * block_size * 12.
BlockMonths(bid, bs, n) == SliceLen(bid * bs * 12, (bid + 1) * bs * 12, n * 12)

\* The generator's state when the simulation loop starts (line 479).
RngAtSimulationStart_keep(r, ss) == r
RngAtSimulationStart(r, ss) == default_rng(ss)

\* discretise_by_point on the rows of a block.  Its first month looks the
\* start and end time up by label in a slice that keeps the labels of the
\* whole table (a KeyError for every block but the first); it then calls
\* discretise_point or discretise_spatial with end_time as an extra
\* positional argument (7 for 6 parameters, 13 for 12), a TypeError.
discretise_by_point_raises(bid, bs, n) ==
    IF BlockMonths(bid, bs, n) = 0 THEN "none"
    ELSE IF bid * bs * 12 > 0 THEN "KeyError"
    ELSE "TypeError"

(***************************************************************************)
(* simulate_realisation: the state machine.                                *)
(***************************************************************************)
SimInit ==
    /\ realisation_id \in 1..MaxRealisations
    /\ seed_sequence \in [entropy : 0..MaxSeed, n_children_spawned : {0}]
    /\ number_of_years \in YearsDomain
    /\ pc = "sizing"
    /\ block_size = InitialBlockSize(number_of_years)
    /\ block_id = 0
    /\ rng = default_rng(seed_sequence)
    /\ exc = "none"
    /\ tried = <<InitialBlockSize(number_of_years)>>
    /\ failed_late = FALSE
    /\ sizing_drew = FALSE
    /\ rng_at_sizing = default_rng(seed_sequence)

\* A block size of zero never leaves the sizing loop, whose block_id then
\* grows without bound: the model follows it for MaxSpin iterations.
SpinBound == block_size = 0 => block_id < MaxSpin

\* One iteration of the sizing loop in which generation and the probe
\* allocation both succeed.
SizingBlockOk ==
    /\ pc = "sizing"
    /\ LoopGuard(block_id, block_size, number_of_years)
    /\ SpinBound
    /\ \E d \in 1..MaxDraws : rng' = Advance(rng, d)
    /\ block_id' = block_id + 1
    /\ exc' = "none"
    /\ sizing_drew' = TRUE
    /\ UNCHANGED <<realisation_id, seed_sequence, number_of_years, pc,
                   block_size, tried, failed_late, rng_at_sizing>>
    /\ UNCHANGED notSim

\* One iteration in which nsproc.main or the probe allocation raises
\* MemoryError: the handler halves the block size and starts over.
SizingMemoryError ==
    /\ pc = "sizing"
    /\ LoopGuard(block_id, block_size, number_of_years)
    /\ SpinBound
    /\ block_size' = HalveBlockSize(block_size)
    /\ block_id' = 0
    /\ rng' = default_rng(seed_sequence)
    /\ exc' = "MemoryError"
    /\ tried' = IF block_size' # block_size THEN Append(tried, block_size')
                ELSE tried
    /\ failed_late' = (failed_late \/ block_id > 0)
    /\ UNCHANGED <<realisation_id, seed_sequence, number_of_years, pc,
                   sizing_drew, rng_at_sizing>>
    /\ UNCHANGED notSim

\* One iteration in which anything else is raised: nothing catches it.
SizingOtherError ==
    /\ pc = "sizing"
    /\ LoopGuard(block_id, block_size, number_of_years)
    /\ SpinBound
    /\ pc' = "aborted"
    /\ exc' = "Error"
    /\ \E d \in 0..MaxDraws : rng' = Advance(rng, d)
    /\ UNCHANGED <<realisation_id, seed_sequence, number_of_years, block_size,
                   block_id, tried, failed_late, sizing_drew, rng_at_sizing>>
    /\ UNCHANGED notSim

\* The sizing loop ends; lines 475-480 start the simulation loop.
StartSimulation ==
    /\ pc = "sizing"
    /\ ~LoopGuard(block_id, block_size, number_of_years)
    /\ pc' = "simulating"
    /\ rng' = RngAtSimulationStart(rng, seed_sequence)
    /\ block_id' = 0
    /\ exc' = "none"
    /\ UNCHANGED <<realisation_id, seed_sequence, number_of_years, block_size,
                   tried, failed_late, sizing_drew, rng_at_sizing>>
    /\ UNCHANGED notSim

\* One pass of the simulation loop: the loop test and, when it holds,
\* nsproc.main followed by discretise_by_point on the block's months.
SimulateBlock ==
    /\ pc = "simulating"
    /\ IF LoopGuard(block_id, block_size, number_of_years)
       THEN /\ \E d \in 1..MaxDraws : rng' = Advance(rng, d)
            /\ exc' = discretise_by_point_raises(block_id, block_size,
                                                 number_of_years)
            /\ IF exc' = "none"
               THEN pc' = pc /\ block_id' = block_id + 1
               ELSE pc' = "aborted" /\ block_id' = block_id
       ELSE /\ pc' = "done"
            /\ UNCHANGED <<rng, exc, block_id>>
    /\ UNCHANGED <<realisation_id, seed_sequence, number_of_years, block_size,
                   tried, failed_late, sizing_drew, rng_at_sizing>>
    /\ UNCHANGED notSim

\* nsproc.main raises in the simulation loop, where nothing is caught.
SimulateGenerationError ==
    /\ pc = "simulating"
    /\ LoopGuard(block_id, block_size, number_of_years)
    /\ pc' = "aborted"
    /\ \E e \in {"MemoryError", "Error"} : exc' = e
    /\ \E d \in 0..MaxDraws : rng' = Advance(rng, d)
    /\ UNCHANGED <<realisation_id, seed_sequence, number_of_years, block_size,
                   block_id, tried, failed_late, sizing_drew, rng_at_sizing>>
    /\ UNCHANGED notSim

SimNext ==
    \/ SizingBlockOk
    \/ SizingMemoryError
    \/ SizingOtherError
    \/ StartSimulation
    \/ SimulateBlock
    \/ SimulateGenerationError

(***************************************************************************)
(* The discretisation kernels.  Times are whole numbers of a time unit     *)
(* (with a unit of half an hour, a timestep length of 2 is one hour);      *)
(* depths are intensity x time units.                                      *)
(***************************************************************************)
NT == 3
MaxL == 2
MaxStart == 1
MaxIntensity == 2
MaxPhi == 2

\* The output locations of a spatial run: point_eastings, point_northings.
Locations == <<[x |-> 0, y |-> 0], [x |-> 3, y |-> 4]>>
NumLocs == Len(Locations)

\* initialise_discrete_rainfall_arrays: np.zeros((nt, points.shape[0])) for
\* a spatial model, np.zeros((nt, 1)) otherwise.
ZeroColumn == [t \in 0..(NT - 1) |-> 0]
initialise_discrete_rainfall_arrays(spatial) ==
    [c \in 0..((IF spatial THEN NumLocs ELSE 1) - 1) |-> ZeroColumn]

\* get_phi, lines 216-220: np.where(phi < 0.0, 0.0, phi)
ClampPhi(p) == IF p < 0 THEN 0 ELSE p

\* discrete_rainfall.fill(0.0)
Fill_keep(col) == col
Fill(col) == [t \in DOMAIN col |-> 0]

\* Lines 650-654: effective_end - effective_start.
TimestepCoverage_whole(rc_arrival_time, rc_end_time, timestep, timestep_length) ==
    Min(rc_end_time, (timestep + 1) * timestep_length)
        - timestep * timestep_length
TimestepCoverage(rc_arrival_time, rc_end_time, timestep, timestep_length) ==
    Min(rc_end_time, (timestep + 1) * timestep_length)
        - Max(rc_arrival_time, timestep * timestep_length)

\* The compiled kernel wraps a negative index once, as numpy does.
Wrap(t, n) == IF t < 0 THEN t + n ELSE t

\* The loop over the timesteps of one raincell (lines 649-657).  An index
\* still negative after wrapping addresses memory before the buffer: with
\* no bounds check the write lands outside it and leaves it as it is.
RECURSIVE AddTimesteps(_, _, _, _, _, _, _)
AddTimesteps(col, t, last, a, e, intensity, L) ==
    IF t > last THEN col
    ELSE LET n == Cardinality(DOMAIN col)
             i == Wrap(t, n)
             added == IF t < n /\ i >= 0
                      THEN [col EXCEPT ![i] =
                                @ + intensity * TimestepCoverage(a, e, t, L)]
                      ELSE col
         IN  AddTimesteps(added, t + 1, last, a, e, intensity, L)

\* Lines 640-646: the first and the last timestep of a raincell.
RcArrivalTimestep(rc, P, L) == (rc.arrival - P) \div L
RcEndTimestep_ceil(rc, P, L) == (rc.end - P + L - 1) \div L
RcEndTimestep(rc, P, L) == (rc.end - P) \div L

\* One raincell added to a column.
AddRaincell(col, rc, P, L) ==
    AddTimesteps(col, RcArrivalTimestep(rc, P, L), RcEndTimestep(rc, P, L),
                 rc.arrival - P, rc.end - P, rc.intensity, L)

\* The raincell's first timestep lies more than a whole buffer before the
\* period start, so it indexes outside the buffer.
IndexesOutside(col, rc, P, L) ==
    Wrap(RcArrivalTimestep(rc, P, L), Cardinality(DOMAIN col)) < 0

\* The loop over the raincells (lines 637-657).  With bounds checking on,
\* the first index outside the buffer raises IndexError.
RECURSIVE RaincellLoop(_, _, _, _, _, _)
RaincellLoop(col, cells, idx, P, L, bc) ==
    IF idx > Len(cells) THEN [col |-> col, exc |-> "none", wild |-> FALSE]
    ELSE IF bc /\ IndexesOutside(col, cells[idx], P, L)
    THEN [col |-> col, exc |-> "IndexError", wild |-> FALSE]
    ELSE LET rest == RaincellLoop(AddRaincell(col, cells[idx], P, L), cells,
                                  idx + 1, P, L, bc)
         IN  [rest EXCEPT !.wild = @ \/ IndexesOutside(col, cells[idx], P, L)]

\* discretise_point(period_start_time, timestep_length, arrival times, end
\* times, intensities, discrete_rainfall), the raincell arrays as one list.
discretise_point(P, L, cells, col, bc) ==
    RaincellLoop(Fill(col), cells, 1, P, L, bc)

\* Line 676-677: distances_from_raincell_centres <= raincell_radii, for
\* radii >= 0 (the square root is increasing, so the squares compare alike).
DistanceSquared(loc, rc) ==
    (loc.x - rc.x) * (loc.x - rc.x) + (loc.y - rc.y) * (loc.y - rc.y)
spatial_mask_strict(loc, rc) == DistanceSquared(loc, rc) < rc.radius * rc.radius
spatial_mask(loc, rc) == DistanceSquared(loc, rc) <= rc.radius * rc.radius

Masked(loc, cells) == SelectSeq(cells, LAMBDA rc : spatial_mask(loc, rc))

\* Line 684: discrete_rainfall[:, yi] *= point_phi[idx]
Scale(col, phi) == [t \in DOMAIN col |-> col[t] * phi]

\* The loop over the locations (lines 671-684); an exception of the nested
\* call ends it.
RECURSIVE LocationLoop(_, _, _, _, _, _, _, _)
LocationLoop(dr, idx, P, L, cells, locs, phi, bc) ==
    IF idx >= Len(locs) THEN [dr |-> dr, exc |-> "none", wild |-> FALSE]
    ELSE LET r == discretise_point(P, L, Masked(locs[idx + 1], cells),
                                   dr[idx], bc)
         IN  IF r.exc # "none"
             THEN [dr |-> [dr EXCEPT ![idx] = r.col], exc |-> r.exc,
                   wild |-> r.wild]
             ELSE LET rest == LocationLoop(
                                  [dr EXCEPT ![idx] = Scale(r.col, phi[idx])],
                                  idx + 1, P, L, cells, locs, phi, bc)
                  IN  [rest EXCEPT !.wild = @ \/ r.wild]

\* discretise_spatial(period_start_time, timestep_length, raincell arrays,
\* discrete_rainfall, point_eastings/northings, point_phi).
discretise_spatial(P, L, cells, dr, locs, phi, bc) ==
    LocationLoop([c \in DOMAIN dr |-> Fill(dr[c])], 0, P, L, cells, locs,
                 phi, bc)

(***************************************************************************)
(* The kernels' inputs.                                                    *)
(***************************************************************************)
Raincell(a, e, i, x, y, r) ==
    [arrival |-> a, end |-> e, intensity |-> i, x |-> x, y |-> y, radius |-> r]

\* Raincells of a point model, from one that begins more than a buffer
\* before the period start to one that ends after the buffer's last timestep.
PointCells(P, L) ==
    {rc \in {Raincell(P + a, P + e, i, 0, 0, 0) :
                a \in (-((NT + 1) * L))..(NT * L),
                e \in (-((NT + 1) * L))..((NT + 1) * L),
                i \in 0..MaxIntensity} : rc.arrival < rc.end}

\* A second raincell of the same call.
SecondCells(P, L) ==
    { Raincell(P + 1, P + L + 1, 1, 0, 0, 0),
      Raincell(P - 1, P + 1, 2, 0, 0, 0),
      Raincell(P + (NT - 1) * L, P + NT * L + 1, 1, 0, 0, 0) }

PointCellLists(P, L) ==
    {<<>>} \cup {<<c>> : c \in PointCells(P, L)}
           \cup {<<c, d>> : c \in PointCells(P, L), d \in SecondCells(P, L)}

\* Raincells of a spatial model: centres and radii that put each location
\* inside, outside and exactly on the edge of a raincell.
Centres == {[x |-> 0, y |-> 0], [x |-> 3, y |-> 0]}
Radii == {0, 3, 5}
SpatialCells(P, L) ==
    {Raincell(P + t[1], P + t[2], MaxIntensity, c.x, c.y, r) :
        t \in {<<0, L + 1>>, <<-1, 1>>}, c \in Centres, r \in Radii}

SpatialCellLists(P, L) ==
    {<<>>} \cup {<<c>> : c \in SpatialCells(P, L)}
           \cup {<<c, d>> : c \in SpatialCells(P, L), d \in SpatialCells(P, L)}

\* The call of an earlier month: one raincell over the whole buffer.
EarlierCells(L) == <<Raincell(0, NT * L, 1, 0, 0, 5)>>

\* The buffer holds rain of an earlier call.
Dirty ==
    \E c \in DOMAIN discrete_rainfall :
        \E t \in DOMAIN discrete_rainfall[c] : discrete_rainfall[c][t] # 0

\* The record of a call: its arguments, and whether the buffer it was
\* handed still held rain.
NoCall == [kind |-> "none", period_start_time |-> 0, timestep_length |-> 1,
           cells |-> <<>>, dirty |-> FALSE]
Call(kind, P, L, cells) ==
    [kind |-> kind, period_start_time |-> P, timestep_length |-> L,
     cells |-> cells, dirty |-> Dirty]

(***************************************************************************)
(* The kernels' state machine: the buffer is created once and every call   *)
(* works on what the call before left in it.                               *)
(***************************************************************************)
KernInit ==
    /\ kphase = "fresh"
    /\ boundscheck \in BOOLEAN
    /\ spatial_model \in BOOLEAN
    /\ \E raw \in [0..(NumLocs - 1) -> (-1)..MaxPhi] :
          point_phi = IF spatial_model
                      THEN [c \in 0..(NumLocs - 1) |-> ClampPhi(raw[c])]
                      ELSE [c \in {0} |-> 1]
    /\ discrete_rainfall = initialise_discrete_rainfall_arrays(spatial_model)
    /\ kcall = NoCall
    /\ kexc = "none"
    /\ wild_write = FALSE

PointCall(P, L, cells, next) ==
    LET r == discretise_point(P, L, cells, discrete_rainfall[0], boundscheck)
    IN  /\ discrete_rainfall' = [discrete_rainfall EXCEPT ![0] = r.col]
        /\ kexc' = r.exc
        /\ wild_write' = r.wild
        /\ kcall' = Call("point", P, L, cells)
        /\ kphase' = next
        /\ UNCHANGED <<boundscheck, spatial_model, point_phi>>
        /\ UNCHANGED notKern

SpatialCall(P, L, cells, next) ==
    LET r == discretise_spatial(P, L, cells, discrete_rainfall, Locations,
                                point_phi, boundscheck)
    IN  /\ discrete_rainfall' = r.dr
        /\ kexc' = r.exc
        /\ wild_write' = r.wild
        /\ kcall' = Call("spatial", P, L, cells)
        /\ kphase' = next
        /\ UNCHANGED <<boundscheck, spatial_model, point_phi>>
        /\ UNCHANGED notKern

\* The call of an earlier month on the new buffer.
EarlierPointCall ==
    /\ kphase = "fresh" /\ ~spatial_model
    /\ \E L \in 1..MaxL : PointCall(0, L, EarlierCells(L), "used")

EarlierSpatialCall ==
    /\ kphase = "fresh" /\ spatial_model
    /\ \E L \in 1..MaxL : SpatialCall(0, L, EarlierCells(L), "used")

\* A call of discretise_point on the point model's single column.
DiscretisePoint ==
    /\ kphase \in {"fresh", "used"} /\ ~spatial_model
    /\ \E P \in 0..MaxStart, L \in 1..MaxL :
          \E cells \in PointCellLists(P, L) : PointCall(P, L, cells, "final")

\* A call of discretise_spatial on the spatial model's buffer.
DiscretiseSpatial ==
    /\ kphase \in {"fresh", "used"} /\ spatial_model
    /\ \E P \in 0..MaxStart, L \in 1..MaxL :
          \E cells \in SpatialCellLists(P, L) : SpatialCall(P, L, cells, "final")

KernNext ==
    \/ EarlierPointCall
    \/ EarlierSpatialCall
    \/ DiscretisePoint
    \/ DiscretiseSpatial

KernIdle ==
    /\ kphase = "idle"
    /\ boundscheck = FALSE
    /\ spatial_model = FALSE
    /\ point_phi = [c \in {0} |-> 1]
    /\ discrete_rainfall = initialise_discrete_rainfall_arrays(FALSE)
    /\ kcall = NoCall
    /\ kexc = "none"
    /\ wild_write = FALSE

SimIdle ==
    /\ realisation_id = 1
    /\ seed_sequence = [entropy |-> 0, n_children_spawned |-> 0]
    /\ number_of_years = 1
    /\ pc = "idle"
    /\ block_size = 1
    /\ block_id = 0
    /\ rng = default_rng(seed_sequence)
    /\ exc = "none"
    /\ tried = <<>>
    /\ failed_late = FALSE
    /\ sizing_drew = FALSE
    /\ rng_at_sizing = default_rng(seed_sequence)

(***************************************************************************)
(* write_output.  A text is a sequence of characters; a value is a whole   *)
(* number of tenths, which is what '%.1f' prints of it.                    *)
(***************************************************************************)
MaxBlocks == 3

DigitChars == <<"0", "1", "2", "3", "4", "5", "6", "7", "8", "9">>

RECURSIVE Digits(_)
Digits(n) == IF n < 10 THEN <<DigitChars[n + 1]>>
             ELSE Digits(n \div 10) \o <<DigitChars[(n % 10) + 1]>>

\* '%.1f' % value
FormatOneDecimal(v) == Digits(v \div 10) \o <<".">> \o <<DigitChars[(v % 10) + 1]>>

\* str.rstrip(ch)
RECURSIVE rstrip(_, _)
rstrip(text, ch) ==
    IF Len(text) > 0 /\ text[Len(text)] = ch
    THEN rstrip(SubSeq(text, 1, Len(text) - 1), ch)
    ELSE text

\* ('%.1f' % value).rstrip('0').rstrip('.')
FormatValue(v) == rstrip(rstrip(FormatOneDecimal(v), "0"), ".")

\* '\n'.join(values)
RECURSIVE Join(_, _)
Join(values, i) ==
    IF i = 0 THEN <<>>
    ELSE IF i = 1 THEN FormatValue(values[1])
    ELSE Join(values, i - 1) \o <<"\n">> \o FormatValue(values[i])

\* The text one call appends to the file of a key (lines 691-696).
AppendedText(output_array) == Join(output_array, Len(output_array))

\* open(output_path, 'a'); fh.writelines(output_lines)
AppendToFile(text, output_lines) == text \o output_lines

\* The output keys of one realisation and the arrays a block hands over.
WriteKeys == {<<"point", "p1", 1>>, <<"point", "p2", 1>>}
BlockArrays == {<<0>>, <<5, 12>>, <<100, 0>>}

WriteInit ==
    /\ files = [k \in WriteKeys |-> <<>>]
    /\ series = [k \in WriteKeys |-> <<>>]
    /\ n_writes = 0

\* write_output(output_arrays, output_paths) at the end of a block.
write_output ==
    /\ n_writes < MaxBlocks
    /\ \E output_arrays \in [WriteKeys -> BlockArrays] :
          /\ files' = [k \in WriteKeys |->
                          AppendToFile(files[k], AppendedText(output_arrays[k]))]
          /\ series' = [k \in WriteKeys |-> series[k] \o output_arrays[k]]
    /\ n_writes' = n_writes + 1
    /\ UNCHANGED notWrite

WriteNext == write_output

WriteIdle ==
    /\ files = [k \in WriteKeys |-> <<>>]
    /\ series = [k \in WriteKeys |-> <<>>]
    /\ n_writes = 0

(***************************************************************************)
(* make_output_paths and output_paths_helper.                              *)
(***************************************************************************)
output_format_extensions ==
    [csv |-> ".csv", csvy |-> ".csvy", txt |-> ".txt", netcdf |-> ".nc"]

output_folder == "out"
output_subfolders == [point |-> "point", catchment |-> "catchment", grid |-> "grid"]
PointNames == <<"p1", "p2">>
CatchmentNames == <<"c1">>

\* A location id is a name (a string) or the number 1.
NameId(name) == [int |-> FALSE, text |-> name]
IntId(n) == [int |-> TRUE, text |-> ToString(n)]

\* os.path.join
PathJoin(a, b) == a \o "/" \o b

\* Lines 377-388: location_ids of an output type.
location_ids(spatial, output_type) ==
    IF output_type = "point"
    THEN IF spatial THEN [i \in 1..Len(PointNames) |-> NameId(PointNames[i])]
         ELSE <<IntId(1)>>
    ELSE IF output_type = "catchment"
    THEN [i \in 1..Len(CatchmentNames) |-> NameId(CatchmentNames[i])]
    ELSE <<IntId(1)>>

\* Lines 393-396: the file name of one (realisation, location), or the
\* exception raised: location_id + '_r' is evaluated first and needs a
\* string; the extension is then looked up in output_format_extensions.
output_file_name(spatial, location_id, rid, format) ==
    IF spatial /\ location_id.int
    THEN [exc |-> "TypeError", name |-> ""]
    ELSE IF format \notin DOMAIN output_format_extensions
    THEN [exc |-> "KeyError", name |-> ""]
    ELSE [exc |-> "none",
          name |-> (IF spatial THEN location_id.text \o "_r" ELSE "r")
                      \o ToString(rid)
                      \o output_format_extensions[format]]

\* output_paths_helper: every (realisation, location) of one output type.
output_paths_helper(spatial, output_type, format, n_realisations) ==
    LET ids == location_ids(spatial, output_type)
        sub == PathJoin(output_folder, output_subfolders[output_type])
        cases == {<<r, i>> : r \in 1..n_realisations, i \in 1..Len(ids)}
        name(c) == output_file_name(spatial, ids[c[2]], c[1], format)
        bad == {c \in cases : name(c).exc # "none"}
    IN  IF bad # {}
        THEN [exc |-> name(CHOOSE c \in bad : TRUE).exc, paths |-> <<>>]
        ELSE [exc |-> "none",
              paths |-> [k \in {<<output_type, ids[c[2]], c[1]>> : c \in cases}
                            |-> PathJoin(sub, name(<<k[3],
                                   CHOOSE i \in 1..Len(ids) : ids[i] = k[2]>>).name)]]

\* Lines 357-365: grid output is asked for with the format 'nc'.
helper_format(output_type, output_format) ==
    IF output_type = "grid" THEN "nc" ELSE output_format

OutputTypes == {"point", "catchment", "grid"}
OutputTypeLists ==
    {<<a>> : a \in OutputTypes}
        \cup {l \in {<<a, b>> : a \in OutputTypes, b \in OutputTypes} :
                 l[1] # l[2]}
        \cup {l \in {<<a, b, c>> : a \in OutputTypes, b \in OutputTypes,
                                    c \in OutputTypes} :
                 l[1] # l[2] /\ l[1] # l[3] /\ l[2] # l[3]}

NoPaths == [k \in {} |-> ""]

PathsInit ==
    /\ ppc = "start"
    /\ p_args \in [spatial_model : BOOLEAN, output_types : OutputTypeLists,
                   output_format : DOMAIN output_format_extensions,
                   n_realisations : 1..MaxRealisations]
    /\ p_pos = 0
    /\ output_paths = NoPaths
    /\ p_exc = "none"

\* One pass of the loop over output_types (lines 356-367).
PathsForOutputType ==
    /\ ppc \in {"start", "looping"}
    /\ p_pos < Len(p_args.output_types)
    /\ LET output_type == p_args.output_types[p_pos + 1]
           r == output_paths_helper(p_args.spatial_model, output_type,
                    helper_format(output_type, p_args.output_format),
                    p_args.n_realisations)
       IN  IF r.exc # "none"
           THEN /\ ppc' = "raised"
                /\ p_exc' = r.exc
                /\ UNCHANGED <<p_pos, output_paths>>
           ELSE /\ ppc' = "looping"
                /\ p_pos' = p_pos + 1
                /\ output_paths' =
                      [k \in DOMAIN output_paths \cup DOMAIN r.paths |->
                          IF k \in DOMAIN r.paths THEN r.paths[k]
                          ELSE output_paths[k]]
                /\ UNCHANGED p_exc
    /\ UNCHANGED p_args
    /\ UNCHANGED notPaths

\* return output_paths
ReturnOutputPaths ==
    /\ ppc \in {"start", "looping"}
    /\ p_pos = Len(p_args.output_types)
    /\ ppc' = "returned"
    /\ UNCHANGED <<p_args, p_pos, output_paths, p_exc>>
    /\ UNCHANGED notPaths

PathsNext == PathsForOutputType \/ ReturnOutputPaths

PathsIdle ==
    /\ ppc = "idle"
    /\ p_args = [spatial_model |-> FALSE, output_types |-> <<"point">>,
                 output_format |-> "csv", n_realisations |-> 1]
    /\ p_pos = 0
    /\ output_paths = NoPaths
    /\ p_exc = "none"

(***************************************************************************)
(* The static metadata: create_discretisation_metadata_arrays, get_phi and *)
(* get_catchment_weights, as main calls them for a spatial model.          *)
(***************************************************************************)
MaxGrid == 3

Seasons == <<"s1", "s2">>
CatchmentIds == <<"c1", "c2">>

\* The dictionary: a function from key tuples to arrays.
Put(md, k, v) == [x \in DOMAIN md \cup {k} |-> IF x = k THEN v ELSE md[x]]
EmptyDict == [k \in {} |-> <<>>]

\* Several keys set, each to its value in the function values.
PutAll(md, values) ==
    [x \in DOMAIN md \cup DOMAIN values |->
        IF x \in DOMAIN values THEN values[x] ELSE md[x]]

\* The grid's flattened coordinates and elevations, one per grid point, and
\* the one output point's.
GridX == [i \in 1..MaxGrid |-> 100 + i]
GridY == [i \in 1..MaxGrid |-> 200 + i]
GridZ == [i \in 1..MaxGrid |-> 300 + i]

\* The interpolated phi of a grid point in a season when it is not negative.
PhiBase(season, i) == (IF season = "s1" THEN 10 ELSE 20) + i

\* The weight a catchment gives a grid point when it is not zero.
WeightBase(catchment, i) == (IF catchment = "c1" THEN 1 ELSE 5) + i

HasPoints(types) == "point" \in types
HasGrid(types) == types \cap {"catchment", "grid"} # {}

\* create_discretisation_metadata_arrays (lines 130-177).
create_discretisation_metadata_arrays(types, dem) ==
    LET p1 == IF HasPoints(types)
              THEN Put(Put(EmptyDict, <<"point", "x">>, <<7>>),
                       <<"point", "y">>, <<8>>)
              ELSE EmptyDict
        p2 == IF HasPoints(types) /\ dem THEN Put(p1, <<"point", "z">>, <<9>>)
              ELSE p1
        g1 == IF HasGrid(types)
              THEN Put(Put(p2, <<"grid", "x">>, GridX), <<"grid", "y">>, GridY)
              ELSE p2
    IN  IF HasGrid(types) /\ dem THEN Put(g1, <<"grid", "z">>, GridZ) ELSE g1

\* The interpolator's values at the locations of an output type.
interpolated_phi(args, output_type, season) ==
    IF output_type = "point" THEN <<1>>
    ELSE IF season = "s1" THEN args.raw_phi
    ELSE [i \in 1..MaxGrid |-> PhiBase(season, i)]

\* Line 198: set(output_types) & set(['point', 'grid'])
phi_output_types(types) == types \cap {"point", "grid"}

\* get_phi (lines 187-222): phi of every season at the locations of the
\* point and grid output types, negative values replaced by zero.
get_phi(args, md) ==
    PutAll(md,
           [k \in {<<t, "phi", Seasons[s]>> :
                      t \in phi_output_types(args.output_types),
                      s \in 1..Len(Seasons)} |->
               [i \in DOMAIN interpolated_phi(args, k[1], k[3]) |->
                   ClampPhi(interpolated_phi(args, k[1], k[3])[i])]])

\* array[catchment_mask]
RECURSIVE Subset(_, _, _)
Subset(array, mask, i) ==
    IF i = 0 THEN <<>>
    ELSE IF mask[i] THEN Append(Subset(array, mask, i - 1), array[i])
    ELSE Subset(array, mask, i - 1)
Masked1(array, mask) == Subset(array, mask, Len(array))

\* Lines 327-330: a grid point is kept when some catchment weights it > 0.
catchment_mask(weights) ==
    [i \in 1..MaxGrid |-> \E c \in DOMAIN weights : weights[c][i] > 0]

\* Lines 333-346: the keys subset by the mask, in the order the code takes
\* them; subsetting the phi of a season reads the key and raises KeyError
\* when get_phi has not set it.
PrunedKeys(dem) ==
    <<<<"grid", "x">>, <<"grid", "y">>>>
        \o (IF dem THEN <<<<"grid", "z">>>> ELSE <<>>)
        \o [c \in 1..Len(CatchmentIds) |-> <<"catchment", "weights", CatchmentIds[c]>>]
        \o [s \in 1..Len(Seasons) |-> <<"grid", "phi", Seasons[s]>>]

RECURSIVE Prune(_, _, _, _)
Prune(md, keys, i, mask) ==
    IF i > Len(keys) THEN [md |-> md, exc |-> "none"]
    ELSE IF keys[i] \notin DOMAIN md THEN [md |-> md, exc |-> "KeyError"]
    ELSE Prune([md EXCEPT ![keys[i]] = Masked1(md[keys[i]], mask)], keys,
               i + 1, mask)

\* get_catchment_weights (lines 310-348).
get_catchment_weights(args, md) ==
    IF ~args.ordered THEN [md |-> md, exc |-> "AssertionError"]
    ELSE LET weighted ==
                 PutAll(md, [k \in {<<"catchment", "weights", CatchmentIds[c]>> :
                                       c \in 1..Len(CatchmentIds)} |->
                                args.weights[k[3]]])
         IN  IF "catchment" \in args.output_types
                 /\ "grid" \notin args.output_types
             THEN Prune(weighted, PrunedKeys(args.dem), 1,
                        catchment_mask(args.weights))
             ELSE [md |-> weighted, exc |-> "none"]

\* The runs the model covers: any output types, a DEM or none, the
\* catchment weighting's points ordered as the grid's or not, a phi field
\* negative at any set of grid points, any set of grid points weighted by
\* each catchment.
RawPhiFields ==
    {[i \in 1..MaxGrid |-> IF i \in neg THEN -1 ELSE PhiBase("s1", i)] :
        neg \in SUBSET (1..MaxGrid)}
WeightFields ==
    {[c \in {"c1", "c2"} |->
         [i \in 1..MaxGrid |-> IF i \in sel[c] THEN WeightBase(c, i) ELSE 0]] :
        sel \in [{"c1", "c2"} -> SUBSET (1..MaxGrid)]}
MetaArgs ==
    [output_types : (SUBSET OutputTypes) \ {{}},
     dem : BOOLEAN,
     ordered : BOOLEAN,
     raw_phi : RawPhiFields,
     weights : WeightFields]

MetaInit ==
    /\ mpc = "created"
    /\ m_args \in MetaArgs
    /\ discretisation_metadata =
          create_discretisation_metadata_arrays(m_args.output_types, m_args.dem)
    /\ m_exc = "none"

\* main, line 61.
GetPhi ==
    /\ mpc = "created"
    /\ discretisation_metadata' = get_phi(m_args, discretisation_metadata)
    /\ mpc' = "phi_done"
    /\ UNCHANGED <<m_args, m_exc>>
    /\ UNCHANGED notMeta

\* main, lines 64-68: only when catchment output is requested.
GetCatchmentWeights ==
    /\ mpc = "phi_done"
    /\ IF "catchment" \in m_args.output_types
       THEN LET r == get_catchment_weights(m_args, discretisation_metadata)
            IN  /\ discretisation_metadata' = r.md
                /\ m_exc' = r.exc
                /\ mpc' = IF r.exc = "none" THEN "done" ELSE "raised"
       ELSE /\ mpc' = "done"
            /\ UNCHANGED <<discretisation_metadata, m_exc>>
    /\ UNCHANGED m_args
    /\ UNCHANGED notMeta

MetaNext == GetPhi \/ GetCatchmentWeights

MetaIdle ==
    /\ mpc = "idle"
    /\ m_args = [output_types |-> {"point"}, dem |-> FALSE, ordered |-> TRUE,
                 raw_phi |-> [i \in 1..MaxGrid |-> PhiBase("s1", i)],
                 weights |-> [c \in {"c1", "c2"} |-> [i \in 1..MaxGrid |-> 0]]]
    /\ discretisation_metadata = EmptyDict
    /\ m_exc = "none"

(***************************************************************************)
(* discretise_by_point, lines 592-610: the catchment averages of one month *)
(* from the grid buffer.  A mean is the pair of a numerator and a          *)
(* denominator; rainfall depths and weights are whole numbers.             *)
(***************************************************************************)
MaxWeight == 2
MaxRain == 1

RECURSIVE SumProducts(_, _, _)
SumProducts(a, b, i) ==
    IF i = 0 THEN 0 ELSE a[i] * b[i] + SumProducts(a, b, i - 1)

Ones(n) == [i \in 1..n |-> 1]

\* np.average(a, axis=1, weights=w) of a 2-D array a (timestep x grid
\* point): scl = w.sum(); ZeroDivisionError when scl == 0; otherwise
\* (a * w).sum(axis=1) / scl.
np_average_unweighted(a, weights) ==
    [exc |-> "none",
     avg |-> [t \in 1..Len(a) |->
                 [num |-> SumProducts(a[t], Ones(Len(a[t])), Len(a[t])),
                  den |-> Len(a[t])]]]
np_average(a, weights) ==
    LET scl == SumProducts(weights, Ones(Len(weights)), Len(weights))
    IN  IF scl = 0 THEN [exc |-> "ZeroDivisionError", avg |-> <<>>]
        ELSE [exc |-> "none",
              avg |-> [t \in 1..Len(a) |->
                          [num |-> SumProducts(a[t], weights, Len(weights)),
                           den |-> scl]]]

\* The buffer's rows: the first any depths, the second dry or wet throughout.
GridRows == [1..MaxGrid -> 0..MaxRain]
SecondRows == {[i \in 1..MaxGrid |-> 0], [i \in 1..MaxGrid |-> MaxRain]}

\* The weights of the catchments: the first any, the second all equal or
\* all zero.
AvgWeights ==
    {[c \in {"c1", "c2"} |-> IF c = "c1" THEN w ELSE [i \in 1..MaxGrid |-> e]] :
        w \in [1..MaxGrid -> 0..MaxWeight], e \in {0, 1}}

AvgInit ==
    /\ cpc = "averaging"
    /\ c_args \in [grid : {<<r, q>> : r \in GridRows, q \in SecondRows},
                   weights : AvgWeights,
                   timesteps_in_month : {1, 2}]
    /\ c_idx = 0
    /\ catchment_output = [k \in {} |-> <<>>]
    /\ c_exc = "none"

\* One pass of the loop over location_ids for output type 'catchment'
\* (lines 600-610 and 622).
CatchmentAverage ==
    /\ cpc = "averaging"
    /\ c_idx < Len(CatchmentIds)
    /\ LET location_id == CatchmentIds[c_idx + 1]
           r == np_average(c_args.grid, c_args.weights[location_id])
       IN  IF r.exc # "none"
           THEN /\ cpc' = "raised"
                /\ c_exc' = r.exc
                /\ UNCHANGED <<c_idx, catchment_output>>
           ELSE /\ catchment_output' =
                      Put(catchment_output, location_id,
                          SubSeq(r.avg, 1, c_args.timesteps_in_month))
                /\ c_idx' = c_idx + 1
                /\ cpc' = IF c_idx' = Len(CatchmentIds) THEN "done" ELSE cpc
                /\ UNCHANGED c_exc
    /\ UNCHANGED c_args
    /\ UNCHANGED notAvg

AvgNext == CatchmentAverage

AvgIdle ==
    /\ cpc = "idle"
    /\ c_args = [grid |-> <<>>, weights |-> <<>>, timesteps_in_month |-> 0]
    /\ c_idx = 0
    /\ catchment_output = [k \in {} |-> <<>>]
    /\ c_exc = "none"

(***************************************************************************)
(* main, lines 40-90: the seed sequence and the loop over the realisation  *)
(* ids, each a call of simulate_realisation with the one seed sequence.    *)
(***************************************************************************)
\* random_seed is None: a value no seed has.
NoSeed == 0 - 1
NoStream == [key |-> -1, pos |-> 0]

RunInit ==
    /\ rpc = "seeding"
    /\ r_args \in [random_seed : {NoSeed} \cup (0..MaxSeed),
                   number_of_realisations : 1..MaxRealisations,
                   simulation_length : 0..MaxYears]
    /\ r_seed_sequence = [entropy |-> 0, n_children_spawned |-> 0]
    /\ r_realisation_id = 0
    /\ r_rng = NoStream
    /\ r_streams = <<>>
    /\ r_exc = "none"

\* Lines 45-48: np.random.SeedSequence() takes fresh entropy from the
\* operating system, np.random.SeedSequence(random_seed) the seed given.
MakeSeedSequence ==
    /\ rpc = "seeding"
    /\ \E e \in 0..MaxSeed :
          /\ r_args.random_seed # NoSeed => e = r_args.random_seed
          /\ r_seed_sequence' = [entropy |-> e, n_children_spawned |-> 0]
    /\ rpc' = "looping"
    /\ UNCHANGED <<r_args, r_realisation_id, r_rng, r_streams, r_exc>>
    /\ UNCHANGED notRun

\* Lines 78-84 and 412-442: the next realisation id, the call of
\* simulate_realisation with seed_sequence, and its generator (line 440).
\* The calendar tables of a realisation of no years come from
\* utils.datetime_series and pandas for an empty span of years: the call
\* may go on with empty tables or raise at line 424.
CallSimulateRealisation ==
    /\ rpc = "looping"
    /\ r_realisation_id < r_args.number_of_realisations
    /\ r_realisation_id' = r_realisation_id + 1
    /\ \E tables_ok \in BOOLEAN :
          /\ r_args.simulation_length > 0 => tables_ok
          /\ IF tables_ok
             THEN /\ r_rng' = default_rng(r_seed_sequence)
                  /\ r_streams' = Append(r_streams,
                                         [sizing |-> r_rng', simulation |-> NoStream])
                  /\ rpc' = "sizing"
                  /\ UNCHANGED r_exc
             ELSE /\ rpc' = "raised"
                  /\ r_exc' = "IndexError"
                  /\ UNCHANGED <<r_rng, r_streams>>
    /\ UNCHANGED <<r_args, r_seed_sequence>>
    /\ UNCHANGED notRun

\* Lines 443-476: the sizing pass draws from the generator for every block
\* it generates (none when the realisation has no years).
RunSizingPass ==
    /\ rpc = "sizing"
    /\ \E d \in 0..MaxDraws :
          /\ (d = 0) <=> ~LoopGuard(0, InitialBlockSize(r_args.simulation_length),
                                    r_args.simulation_length)
          /\ r_rng' = Advance(r_rng, d)
    /\ rpc' = "resetting"
    /\ UNCHANGED <<r_args, r_seed_sequence, r_realisation_id, r_streams, r_exc>>
    /\ UNCHANGED notRun

\* Lines 479-480.
RunStartSimulation ==
    /\ rpc = "resetting"
    /\ r_rng' = RngAtSimulationStart(r_rng, r_seed_sequence)
    /\ r_streams' = [r_streams EXCEPT ![r_realisation_id].simulation = r_rng']
    /\ rpc' = "simulating"
    /\ UNCHANGED <<r_args, r_seed_sequence, r_realisation_id, r_exc>>
    /\ UNCHANGED notRun

\* Lines 481-513: the simulation loop.  Its first block ends in the
\* exception discretise_by_point raises, which main does not catch; with no
\* block to simulate the call returns and main goes on.
RunSimulationLoop ==
    /\ rpc = "simulating"
    /\ LET n == r_args.simulation_length
           bs == InitialBlockSize(n)
       IN  IF LoopGuard(0, bs, n)
           THEN /\ \E d \in 1..MaxDraws : r_rng' = Advance(r_rng, d)
                /\ r_exc' = discretise_by_point_raises(0, bs, n)
                /\ rpc' = IF r_exc' = "none" THEN "looping" ELSE "raised"
           ELSE /\ rpc' = "looping"
                /\ UNCHANGED <<r_rng, r_exc>>
    /\ UNCHANGED <<r_args, r_seed_sequence, r_realisation_id, r_streams>>
    /\ UNCHANGED notRun

\* The loop over realisation_ids is exhausted.
FinishRun ==
    /\ rpc = "looping"
    /\ r_realisation_id = r_args.number_of_realisations
    /\ rpc' = "finished"
    /\ UNCHANGED <<r_args, r_seed_sequence, r_realisation_id, r_rng, r_streams,
                   r_exc>>
    /\ UNCHANGED notRun

RunNext ==
    \/ MakeSeedSequence
    \/ CallSimulateRealisation
    \/ RunSizingPass
    \/ RunStartSimulation
    \/ RunSimulationLoop
    \/ FinishRun

RunIdle ==
    /\ rpc = "idle"
    /\ r_args = [random_seed |-> NoSeed, number_of_realisations |-> 1,
                 simulation_length |-> 1]
    /\ r_seed_sequence = [entropy |-> 0, n_children_spawned |-> 0]
    /\ r_realisation_id = 0
    /\ r_rng = NoStream
    /\ r_streams = <<>>
    /\ r_exc = "none"

(***************************************************************************)
(* make_phi_interpolator for one season.  p-values are in thousandths and  *)
(* correlation coefficients in tenths; a local variable that no statement  *)
(* has assigned is "unbound", and reading it raises UnboundLocalError.     *)
(***************************************************************************)
\* pvalue < 0.05
SignificanceLevel == 50

PValues == {10, 50, 200}
RValues == {-8, 3, 8}
Regressions == [pvalue : PValues, rvalue : RValues]

NoResult == [predictor |-> "none", data |-> "none", log_transformation |-> "none"]

InterpInit ==
    /\ ipc = "testing"
    /\ i_args \in [include_elevation : BOOLEAN,
                   untransformed_regression : Regressions,
                   log_transformed_regression : Regressions]
    /\ significant_regression = "unbound"
    /\ log_transformation = "unbound"
    /\ i_phi = "unbound"
    /\ i_result = NoResult
    /\ i_exc = "none"

\* Lines 231-244: the test for an elevation dependence of phi.
significant(p) == p < SignificanceLevel

TestElevationDependence ==
    /\ ipc = "testing"
    /\ LET u == i_args.untransformed_regression
           l == i_args.log_transformed_regression
       IN  IF i_args.include_elevation
           THEN IF significant(u.pvalue) \/ significant(l.pvalue)
                THEN /\ significant_regression' = "True"
                     /\ log_transformation' =
                           IF u.rvalue >= l.rvalue THEN "False" ELSE "True"
                ELSE /\ significant_regression' = "False"
                     /\ UNCHANGED log_transformation
           ELSE /\ significant_regression' = "False"
                /\ log_transformation' = "False"
    /\ ipc' = "selecting"
    /\ UNCHANGED <<i_args, i_phi, i_result, i_exc>>
    /\ UNCHANGED notInterp

\* Lines 247-254: if log_transformation: phi = np.log(df1['phi']) else
\* phi = df1['phi'].values.
SelectRegressionModel ==
    /\ ipc = "selecting"
    /\ IF log_transformation = "unbound"
       THEN /\ ipc' = "raised"
            /\ i_exc' = "UnboundLocalError"
            /\ UNCHANGED i_phi
       ELSE /\ i_phi' = IF log_transformation = "True" THEN "log"
                        ELSE "untransformed"
            /\ ipc' = "kriging"
            /\ UNCHANGED i_exc
    /\ UNCHANGED <<i_args, significant_regression, log_transformation, i_result>>
    /\ UNCHANGED notInterp

\* Lines 257-298: the variogram, the covariance model and the kriging
\* object; return phi_interpolator, log_transformation.
InstantiateKriging ==
    /\ ipc = "kriging"
    /\ i_result' =
          [predictor |-> IF i_args.include_elevation
                            /\ significant_regression = "True"
                         THEN "ExtDrift" ELSE "Ordinary",
           data |-> i_phi,
           log_transformation |-> log_transformation]
    /\ ipc' = "returned"
    /\ UNCHANGED <<i_args, significant_regression, log_transformation, i_phi, i_exc>>
    /\ UNCHANGED notInterp

InterpNext ==
    \/ TestElevationDependence
    \/ SelectRegressionModel
    \/ InstantiateKriging

InterpIdle ==
    /\ ipc = "idle"
    /\ i_args = [include_elevation |-> FALSE,
                 untransformed_regression |-> [pvalue |-> 200, rvalue |-> 3],
                 log_transformed_regression |-> [pvalue |-> 200, rvalue |-> 3]]
    /\ significant_regression = "unbound"
    /\ log_transformation = "unbound"
    /\ i_phi = "unbound"
    /\ i_result = NoResult
    /\ i_exc = "none"

(***************************************************************************)
(* simulate_realisation, lines 443-476 with discretisation_method          *)
(* 'default': the sizing loop and the probe allocation of each block.      *)
(***************************************************************************)
MaxLocations == 2

\* block_start_year + 100
ProbeYears == 100

\* The rows of datetimes with first <= year <= last, for daily timesteps:
\* 365 for each year and one more for each leap year.
LeapYears(first, last) == {year \in first..last : year % 4 = 0}
TimestepsInYears(first, last) ==
    IF first > last THEN 0
    ELSE (last - first + 1) * 365 + Cardinality(LeapYears(first, last))

\* A dataframe argument: given with a number of rows, or None.
Frames == {[given |-> FALSE, rows |-> 0]}
              \cup {[given |-> TRUE, rows |-> n] : n \in 1..MaxLocations}

\* Lines 454-457: block_start_year and the rows of datetimes with
\* block_start_year <= year < block_start_year + 100 (datetimes has the
\* years start_year .. end_year).
n_timesteps(args, bid, bs) ==
    LET block_start_year == args.start_year + bid * bs
        end_year == args.start_year + args.number_of_years - 1
    IN  TimestepsInYears(Max(block_start_year, args.start_year),
                         Min(block_start_year + ProbeYears - 1, end_year))

\* Line 458: points.shape[0] * catchments.shape[0]; None has no shape.
n_points(args) ==
    IF ~args.points.given \/ ~args.catchments.given
    THEN [exc |-> "AttributeError", n |-> 0]
    ELSE [exc |-> "none", n |-> args.points.rows * args.catchments.rows]

NoProbe == [held |-> FALSE, block_id |-> 0, block_size |-> 0, elements |-> 0]

ProbeInit ==
    /\ qpc = "sizing"
    /\ q_args \in [start_year : {2000, 2001},
                   number_of_years : (1..MaxYears) \cup {150},
                   points : Frames,
                   catchments : Frames]
    /\ q_block_size = InitialBlockSize(q_args.number_of_years)
    /\ q_block_id = 0
    /\ dummy2 = NoProbe
    /\ q_exc = "none"

ProbeSpinBound == q_block_size = 0 => q_block_id < MaxSpin

\* An iteration that generates the block and makes the probe allocation
\* (line 459), or raises on the way to it.
ProbeBlock ==
    /\ qpc = "sizing"
    /\ LoopGuard(q_block_id, q_block_size, q_args.number_of_years)
    /\ ProbeSpinBound
    /\ IF n_points(q_args).exc # "none"
       THEN /\ qpc' = "raised"
            /\ q_exc' = n_points(q_args).exc
            /\ UNCHANGED <<q_block_id, dummy2>>
       ELSE /\ dummy2' = [held |-> TRUE, block_id |-> q_block_id,
                          block_size |-> q_block_size,
                          elements |-> n_timesteps(q_args, q_block_id, q_block_size)
                                          * n_points(q_args).n]
            /\ q_block_id' = q_block_id + 1
            /\ q_exc' = "none"
            /\ UNCHANGED qpc
    /\ UNCHANGED <<q_args, q_block_size>>
    /\ UNCHANGED notProbe

\* An iteration in which the generation or the allocation raises
\* MemoryError (lines 469-474).
ProbeMemoryError ==
    /\ qpc = "sizing"
    /\ LoopGuard(q_block_id, q_block_size, q_args.number_of_years)
    /\ ProbeSpinBound
    /\ q_block_size' = HalveBlockSize(q_block_size)
    /\ q_block_id' = 0
    /\ dummy2' = NoProbe
    /\ q_exc' = "MemoryError"
    /\ UNCHANGED <<qpc, q_args>>
    /\ UNCHANGED notProbe

\* The sizing loop ends (lines 475-476).
ProbeEnd ==
    /\ qpc = "sizing"
    /\ ~LoopGuard(q_block_id, q_block_size, q_args.number_of_years)
    /\ qpc' = "sized"
    /\ dummy2' = NoProbe
    /\ UNCHANGED <<q_args, q_block_size, q_block_id, q_exc>>
    /\ UNCHANGED notProbe

ProbeNext == ProbeBlock \/ ProbeMemoryError \/ ProbeEnd

ProbeIdle ==
    /\ qpc = "idle"
    /\ q_args = [start_year |-> 2000, number_of_years |-> 1,
                 points |-> [given |-> FALSE, rows |-> 0],
                 catchments |-> [given |-> FALSE, rows |-> 0]]
    /\ q_block_size = 1
    /\ q_block_id = 0
    /\ dummy2 = NoProbe
    /\ q_exc = "none"

(***************************************************************************)
(* The specifications.                                                     *)
(***************************************************************************)
FirstIdle == SimIdle /\ KernIdle /\ WriteIdle /\ PathsIdle /\ MetaIdle
LaterIdle == AvgIdle /\ RunIdle /\ InterpIdle /\ ProbeIdle

Init == SimInit /\ KernIdle /\ WriteIdle /\ PathsIdle /\ MetaIdle /\ LaterIdle

Next == SimNext

Spec == Init /\ [][Next]_vars

InitKernel ==
    KernInit /\ SimIdle /\ WriteIdle /\ PathsIdle /\ MetaIdle /\ LaterIdle

SpecKernel == InitKernel /\ [][KernNext]_vars

InitWrite ==
    WriteInit /\ SimIdle /\ KernIdle /\ PathsIdle /\ MetaIdle /\ LaterIdle

SpecWrite == InitWrite /\ [][WriteNext]_vars

InitPaths ==
    PathsInit /\ SimIdle /\ KernIdle /\ WriteIdle /\ MetaIdle /\ LaterIdle

SpecPaths == InitPaths /\ [][PathsNext]_vars

InitMeta ==
    MetaInit /\ SimIdle /\ KernIdle /\ WriteIdle /\ PathsIdle /\ LaterIdle

SpecMeta == InitMeta /\ [][MetaNext]_vars

InitAverage == AvgInit /\ FirstIdle /\ RunIdle /\ InterpIdle /\ ProbeIdle

SpecAverage == InitAverage /\ [][AvgNext]_vars

InitRun == RunInit /\ FirstIdle /\ AvgIdle /\ InterpIdle /\ ProbeIdle

SpecRun == InitRun /\ [][RunNext]_vars

InitInterpolator == InterpInit /\ FirstIdle /\ AvgIdle /\ RunIdle /\ ProbeIdle

SpecInterpolator == InitInterpolator /\ [][InterpNext]_vars

InitProbe == ProbeInit /\ FirstIdle /\ AvgIdle /\ RunIdle /\ InterpIdle

SpecProbe == InitProbe /\ [][ProbeNext]_vars

(***************************************************************************)
(* Claims about simulate_realisation (specification Spec).                 *)
(***************************************************************************)
InLoop == pc \in {"sizing", "simulating"}

\* C1: once memory failures have halved the block size to zero the
\* realisation fails fatally: from a state of either loop with block size
\* zero the only step is the one that aborts the realisation.
C1_ZeroBlockSizeIsFatal ==
    [][(InLoop /\ block_size = 0) => pc' = "aborted"]_vars

\* C2: in the sizing phase a step that raises MemoryError, at any block
\* index, leaves block size = floor(previous block size / 2), block count 0
\* and the random source as it was when the realisation began, and stays in
\* the sizing phase; a step that raises anything else aborts the realisation.
C2_MemoryFailureHalvesAndRetries ==
    [][ /\ (pc = "sizing" /\ exc' = "MemoryError") =>
              /\ 2 * block_size' <= block_size
              /\ block_size < 2 * block_size' + 2
              /\ block_id' = 0
              /\ rng' = rng_at_sizing
              /\ pc' = "sizing"
        /\ (pc = "sizing" /\ exc' \notin {"none", "MemoryError"}) =>
              pc' = "aborted" ]_vars

\* A memory failure has hit a block after the first, after draws from the
\* random source, and left an odd block size halved.
C2_Witness ==
    /\ pc = "sizing" /\ exc = "MemoryError" /\ block_id = 0
    /\ failed_late /\ sizing_drew
    /\ Len(tried) >= 3 /\ tried[Len(tried) - 1] % 2 = 1
    /\ block_size = tried[Len(tried)] /\ block_size >= 1

\* C3: when the simulation loop starts, the random source is in the state
\* it had when sizing began, whatever the sizing pass drew and however often
\* it halved and retried.
C3_SimulationStartsFromSizingState ==
    (pc = "simulating" /\ block_id = 0 /\ exc = "none") =>
        (rng = rng_at_sizing /\ rng = default_rng(seed_sequence))

\* The simulation loop starts after a sizing pass that drew random numbers
\* and retried at least once.
C3_Witness ==
    /\ pc = "simulating" /\ block_id = 0 /\ exc = "none"
    /\ sizing_drew /\ Len(tried) >= 2 /\ failed_late

\* The blocks the simulation loop's bound and month slices define for a
\* block size: their number, and the years each covers.
NumBlocks(bs, n) ==
    CHOOSE k \in 0..n : /\ ~LoopGuard(k, bs, n)
                        /\ \A j \in 0..(k - 1) : LoopGuard(j, bs, n)
BlockPlan(bs, n) ==
    [k \in 1..NumBlocks(bs, n) |-> BlockMonths(k - 1, bs, n) \div 12]

\* A 900-year realisation whose sizing pass met two capacity failures and
\* then found a block size that works has reached the simulation loop.
C4_Scenario ==
    number_of_years = 900 /\ pc = "simulating" /\ Len(tried) = 3

\* C4 as stated: sizing tried 1000, 500 and 250, and the simulation runs
\* blocks of 250, 250, 250 and 150 years.
C4_AsStated ==
    C4_Scenario =>
        /\ tried = <<1000, 500, 250>>
        /\ BlockPlan(block_size, number_of_years) = <<250, 250, 250, 150>>

\* C4 as amended: the first candidate is min(900, 1000) = 900, sizing tried
\* 900, 450 and 225, and the simulation loop starts with block size 225,
\* for which its bound and month slices define 4 blocks of 225 years each.
C4_SizingFrom900 ==
    C4_Scenario =>
        /\ tried = <<900, 450, 225>>
        /\ block_size = 225
        /\ block_id = 0
        /\ BlockPlan(block_size, number_of_years) = <<225, 225, 225, 225>>

C4_Witness == C4_Scenario /\ failed_late /\ sizing_drew

\* C13: in the simulation loop with a block size >= 1, every block whose
\* raincells were generated is discretised to its last month, each month
\* once and in calendar order with its own start and end time, and the loop
\* goes on to the next block, blocks 0 .. ceil(number_of_years / s) - 1 in
\* increasing order, the first block and every later one alike.
C13_BlocksDiscretisedInOrder ==
    [][ ( /\ pc = "simulating"
          /\ block_size >= 1
          /\ LoopGuard(block_id, block_size, number_of_years)
          /\ exc' \notin {"MemoryError", "Error"} )
        => ( /\ pc' = "simulating"
             /\ exc' = "none"
             /\ block_id' = block_id + 1
             /\ block_id' <= NumBlocks(block_size, number_of_years) ) ]_vars

(***************************************************************************)
(* Claims about the kernels (specification SpecKernel).                    *)
(***************************************************************************)
RECURSIVE SumUpTo(_, _)
SumUpTo(col, t) == IF t < 0 THEN 0 ELSE col[t] + SumUpTo(col, t - 1)
SumColumn(col) == SumUpTo(col, NT - 1)

Depth(rc) == rc.intensity * (rc.end - rc.arrival)

RECURSIVE TotalDepth(_, _)
TotalDepth(cells, i) ==
    IF i = 0 THEN 0 ELSE Depth(cells[i]) + TotalDepth(cells, i - 1)

\* The raincell lies within the timesteps of the buffer.
Unclipped(rc, P, L) == rc.arrival - P >= 0 /\ rc.end - P <= NT * L

\* The raincell lies within one timestep.
InOneTimestep(rc, P, L) ==
    /\ Unclipped(rc, P, L)
    /\ rc.end - P <= ((rc.arrival - P) \div L + 1) * L

PointCallReturned == kcall.kind = "point" /\ kexc = "none"

\* C5: conservation of depth in discretise_point.  A raincell that lies
\* within the buffer's timesteps adds intensity x (end - arrival) in all;
\* when every raincell of the call does, the buffer sums to the total of
\* these; a single raincell within one timestep puts intensity x duration
\* in that timestep and nothing elsewhere, for every timestep length; and
\* arrival 0, end 1.5, timestep length 1, intensity 2 (in half hours: end 3,
\* timestep length 2) gives [2.0, 1.0, 0] (in half units: [4, 2, 0]).
C5_ConservationOfDepth ==
    PointCallReturned =>
        LET P == kcall.period_start_time
            L == kcall.timestep_length
            cells == kcall.cells
            col == discrete_rainfall[0]
        IN  /\ \A i \in 1..Len(cells) :
                  Unclipped(cells[i], P, L) =>
                      SumColumn(AddRaincell(ZeroColumn, cells[i], P, L))
                          = Depth(cells[i])
            /\ (\A i \in 1..Len(cells) : Unclipped(cells[i], P, L)) =>
                  SumColumn(col) = TotalDepth(cells, Len(cells))
            /\ (Len(cells) = 1 /\ InOneTimestep(cells[1], P, L)) =>
                  \A t \in 0..(NT - 1) :
                      col[t] = IF t = (cells[1].arrival - P) \div L
                               THEN Depth(cells[1]) ELSE 0
            /\ (P = 0 /\ L = 2 /\ cells = <<Raincell(0, 3, 2, 0, 0, 0)>>) =>
                  col = [t \in 0..(NT - 1) |->
                            IF t = 0 THEN 4 ELSE IF t = 1 THEN 2 ELSE 0]

\* A call with two raincells within the buffer, the first over three or
\* more timesteps.
C5_Witness ==
    /\ PointCallReturned /\ kphase = "final"
    /\ Len(kcall.cells) = 2
    /\ \A i \in 1..2 : /\ Unclipped(kcall.cells[i], kcall.period_start_time,
                                    kcall.timestep_length)
                       /\ kcall.cells[i].intensity > 0
    /\ RcEndTimestep(kcall.cells[1], kcall.period_start_time,
                     kcall.timestep_length)
         >= RcArrivalTimestep(kcall.cells[1], kcall.period_start_time,
                              kcall.timestep_length) + 2
    /\ SumColumn(discrete_rainfall[0]) > 0

\* The raincells whose radius is at least the distance to the location.
ActiveAt(loc, cells) ==
    SelectSeq(cells, LAMBDA rc : /\ rc.radius >= 0
                                 /\ rc.radius * rc.radius
                                      >= (loc.x - rc.x) * (loc.x - rc.x)
                                         + (loc.y - rc.y) * (loc.y - rc.y))

SpatialCallReturned == kcall.kind = "spatial" /\ kexc = "none"

\* C6: after discretise_spatial every location's column is that location's
\* phi times discretise_point of exactly the raincells whose radius >= the
\* distance from their centre to the location (a distance equal to the
\* radius included); where phi = 1 and one raincell is active the column is
\* the point discretisation of that raincell.
C6_SpatialIsScaledPoint ==
    SpatialCallReturned =>
        \A c \in DOMAIN discrete_rainfall :
            LET P == kcall.period_start_time
                L == kcall.timestep_length
                active == ActiveAt(Locations[c + 1], kcall.cells)
                point == discretise_point(P, L, active, ZeroColumn,
                                          boundscheck).col
            IN  /\ discrete_rainfall[c]
                     = [t \in 0..(NT - 1) |-> point_phi[c] * point[t]]
                /\ (point_phi[c] = 1 /\ Len(active) = 1) =>
                      discrete_rainfall[c]
                          = AddRaincell(ZeroColumn, active[1], P, L)

\* A location with phi = 1 lies exactly on the edge of the one raincell
\* that is active there, and outside the other raincell of the call.
C6_Witness ==
    /\ SpatialCallReturned /\ kphase = "final"
    /\ Len(kcall.cells) = 2
    /\ \E c \in DOMAIN discrete_rainfall :
          LET active == ActiveAt(Locations[c + 1], kcall.cells)
          IN  /\ point_phi[c] = 1
              /\ Len(active) = 1
              /\ active[1].radius > 0
              /\ DistanceSquared(Locations[c + 1], active[1])
                    = active[1].radius * active[1].radius
              /\ SumColumn(discrete_rainfall[c]) > 0

\* C7: no element of the buffer is negative after discretise_point or
\* discretise_spatial, for raincells with arrival < end and intensity >= 0
\* and phi >= 0, raincells that arrive before the period start or end
\* after the buffer's last timestep included.
C7_NeverNegative ==
    \A c \in DOMAIN discrete_rainfall :
        \A t \in DOMAIN discrete_rainfall[c] : discrete_rainfall[c][t] >= 0

\* A call with a raincell that arrived before the period start and runs
\* past the buffer's last timestep, and rain in the buffer.
C7_Witness ==
    /\ kcall.kind \in {"point", "spatial"} /\ kexc = "none"
    /\ \E i \in 1..Len(kcall.cells) :
          /\ kcall.cells[i].arrival < kcall.period_start_time
          /\ kcall.cells[i].end
                > kcall.period_start_time + NT * kcall.timestep_length
          /\ kcall.cells[i].intensity > 0
    /\ \E t \in 0..(NT - 1) : discrete_rainfall[0][t] > 0

\* The length of the intersection of a raincell's active interval with
\* timestep t's interval [t*L, (t+1)*L], times relative to the period start.
Overlap(rc, t, P, L) ==
    Max(0, Min(rc.end - P, (t + 1) * L) - Max(rc.arrival - P, t * L))

RECURSIVE OverlapDepth(_, _, _, _, _)
OverlapDepth(cells, i, t, P, L) ==
    IF i = 0 THEN 0
    ELSE cells[i].intensity * Overlap(cells[i], t, P, L)
            + OverlapDepth(cells, i - 1, t, P, L)

\* Every raincell of the call overlaps the period, as the temporal subset
\* of discretise_by_point (line 546) has it.
AllOverlapPeriod ==
    \A i \in 1..Len(kcall.cells) :
        /\ kcall.cells[i].end > kcall.period_start_time
        /\ kcall.cells[i].arrival
              < kcall.period_start_time + NT * kcall.timestep_length

\* C14: after discretise_point on a buffer of N timesteps every element t
\* is the sum over the raincells, each overlapping the period, of intensity
\* x the length of the intersection of [arrival, end] with timestep t's
\* interval, in every call that writes within the buffer: the part of a
\* raincell before the period start is added to no element, and the part
\* after timestep N-1 is dropped.
C14_ElementIsOverlapDepth ==
    (PointCallReturned /\ ~wild_write /\ AllOverlapPeriod) =>
        \A t \in 0..(NT - 1) :
            discrete_rainfall[0][t]
                = OverlapDepth(kcall.cells, Len(kcall.cells), t,
                               kcall.period_start_time, kcall.timestep_length)

\* The same for calls whose raincells all arrive at or after the period
\* start.
OverlapDepthFromPeriodStart ==
    (PointCallReturned
        /\ \A i \in 1..Len(kcall.cells) :
              kcall.cells[i].arrival >= kcall.period_start_time) =>
        C14_ElementIsOverlapDepth

\* The buffer a call leaves when it is handed an all-zero buffer.
OnZeroBuffer ==
    IF kcall.kind = "point"
    THEN [c \in {0} |->
             discretise_point(kcall.period_start_time, kcall.timestep_length,
                              kcall.cells, ZeroColumn, boundscheck).col]
    ELSE discretise_spatial(kcall.period_start_time, kcall.timestep_length,
                            kcall.cells,
                            initialise_discrete_rainfall_arrays(TRUE),
                            Locations, point_phi, boundscheck).dr

\* C17: the buffer reused across months never leaks values between calls:
\* after any call of discretise_point or discretise_spatial, whatever an
\* earlier call left in the buffer, every element of every location column
\* is what the same call leaves in an all-zero buffer.
C17_NoLeakBetweenCalls ==
    kcall.kind \in {"point", "spatial"} => discrete_rainfall = OnZeroBuffer

\* A call on a buffer that held rain of an earlier call in every timestep
\* has left a timestep of some column dry and another wet.
C17_Witness ==
    /\ kcall.kind \in {"point", "spatial"} /\ kcall.dirty /\ kphase = "final"
    /\ kexc = "none"
    /\ \E c \in DOMAIN discrete_rainfall :
          /\ \E t \in 0..(NT - 1) : discrete_rainfall[c][t] = 0
          /\ \E t \in 0..(NT - 1) : discrete_rainfall[c][t] > 0

(***************************************************************************)
(* Claims about write_output (specification SpecWrite).                    *)
(***************************************************************************)
\* The lines of a text: what a newline separates.
RECURSIVE SplitLines(_, _, _)
SplitLines(text, i, line) ==
    IF i > Len(text) THEN <<line>>
    ELSE IF text[i] = "\n" THEN <<line>> \o SplitLines(text, i + 1, <<>>)
    ELSE SplitLines(text, i + 1, Append(line, text[i]))

\* C8: after any number B >= 1 of blocks the file of each output key holds
\* the whole series as newline-separated values: its lines are the values
\* written, one per timestep, in order, the last value of a block and the
\* first of the next on lines of their own.
C8_FileHoldsSeriesByLine ==
    n_writes >= 1 =>
        \A k \in WriteKeys :
            SplitLines(files[k], 1, <<>>)
                = [i \in 1..Len(series[k]) |-> FormatValue(series[k][i])]

(***************************************************************************)
(* Claims about make_output_paths (specification SpecPaths).               *)
(***************************************************************************)
\* The file name the path convention gives a key.
ConventionName(spatial, output_type, location_id, rid, format) ==
    (IF spatial THEN location_id.text \o "_r" ELSE "r")
        \o ToString(rid)
        \o (IF output_type = "grid" THEN ".nc"
            ELSE output_format_extensions[format])

\* C9: make_output_paths returns one path for every (output type, location
\* id, realisation id) of every requested output type, grid included, named
\* r<realisation>.<ext> (non-spatial) or <location>_r<realisation>.<ext>
\* (spatial), with .nc for grid output and the configured format's
\* extension for point and catchment output.
C9_OnePathPerKey ==
    (ppc \in {"returned", "raised"}) =>
        /\ ppc = "returned"
        /\ \A n \in 1..Len(p_args.output_types) :
              LET output_type == p_args.output_types[n]
                  ids == location_ids(p_args.spatial_model, output_type)
              IN  \A i \in 1..Len(ids), rid \in 1..p_args.n_realisations :
                      /\ <<output_type, ids[i], rid>> \in DOMAIN output_paths
                      /\ output_paths[<<output_type, ids[i], rid>>]
                            = PathJoin(PathJoin(output_folder,
                                                output_subfolders[output_type]),
                                       ConventionName(p_args.spatial_model,
                                                      output_type, ids[i], rid,
                                                      p_args.output_format))

(***************************************************************************)
(* Claims about the static metadata (specification SpecMeta).              *)
(***************************************************************************)
\* The grid points some catchment gives a weight > 0.
Kept == [i \in 1..MaxGrid |->
            \E c \in {"c1", "c2"} : m_args.weights[c][i] > 0]

\* The array a key holds once the zero-weight grid points are dropped.
KeptOf(array) == Masked1(array, Kept)

PruningCase ==
    /\ mpc \in {"done", "raised"}
    /\ "catchment" \in m_args.output_types
    /\ "grid" \notin m_args.output_types
    /\ m_args.ordered

\* C10: with catchment output requested and grid output not, get_phi and
\* get_catchment_weights complete and keep exactly the grid points with a
\* weight > 0 in some catchment, in grid x, y, z (with a DEM), every
\* season's grid phi and every catchment's weights alike, so that all of
\* them have one length and index i is one location in each.
C10_PruningKeepsArraysAligned ==
    PruningCase =>
        /\ mpc = "done" /\ m_exc = "none"
        /\ discretisation_metadata[<<"grid", "x">>] = KeptOf(GridX)
        /\ discretisation_metadata[<<"grid", "y">>] = KeptOf(GridY)
        /\ m_args.dem => discretisation_metadata[<<"grid", "z">>] = KeptOf(GridZ)
        /\ \A s \in 1..Len(Seasons) :
              /\ <<"grid", "phi", Seasons[s]>> \in DOMAIN discretisation_metadata
              /\ discretisation_metadata[<<"grid", "phi", Seasons[s]>>]
                    = KeptOf([i \in 1..MaxGrid |->
                                 ClampPhi(interpolated_phi(m_args, "grid",
                                                           Seasons[s])[i])])
        /\ \A c \in 1..Len(CatchmentIds) :
              discretisation_metadata[<<"catchment", "weights", CatchmentIds[c]>>]
                  = KeptOf(m_args.weights[CatchmentIds[c]])

(***************************************************************************)
(* Claims about the catchment averages (specification SpecAverage).        *)
(***************************************************************************)
\* The rows that differ from row only where the weight is zero.
SameWhereWeighted(row, other, w) ==
    \A i \in 1..MaxGrid : w[i] > 0 => other[i] = row[i]

\* C11: the catchment output value of every catchment handled and every
\* timestep of the month is sum(w_i * r_i) / sum(w_i); grid points of
\* weight 0 do not influence it; it is the plain mean of the grid points
\* when all weights are equal; and a catchment whose weights total zero
\* raises an error and leaves no value.
C11_WeightedMean ==
    /\ \A c \in DOMAIN catchment_output :
          LET w == c_args.weights[c]
              total == SumProducts(w, Ones(MaxGrid), MaxGrid)
          IN  /\ total > 0
              /\ Len(catchment_output[c]) = c_args.timesteps_in_month
              /\ \A t \in 1..c_args.timesteps_in_month :
                    LET v == catchment_output[c][t]
                        row == c_args.grid[t]
                    IN  /\ v.den > 0
                        /\ v.num * total
                              = SumProducts(row, w, MaxGrid) * v.den
                        /\ \A other \in GridRows :
                              SameWhereWeighted(row, other, w) =>
                                  v.num * total
                                      = SumProducts(other, w, MaxGrid) * v.den
                        /\ (\A i \in 1..MaxGrid : w[i] = w[1]) =>
                              v.num * MaxGrid
                                  = SumProducts(row, Ones(MaxGrid), MaxGrid)
                                        * v.den
    /\ cpc = "raised" <=>
          /\ c_idx < Len(CatchmentIds)
          /\ c_exc = "ZeroDivisionError"
          /\ SumProducts(c_args.weights[CatchmentIds[c_idx + 1]],
                         Ones(MaxGrid), MaxGrid) = 0
    /\ cpc \in {"averaging", "done"} =>
          \A i \in 1..c_idx :
              SumProducts(c_args.weights[CatchmentIds[i]], Ones(MaxGrid),
                          MaxGrid) > 0

\* Both catchments are averaged: the first with unequal weights, one of
\* them zero at a wet grid point, over a row that is not uniform.
C11_Witness ==
    /\ cpc = "done"
    /\ DOMAIN catchment_output = {"c1", "c2"}
    /\ c_args.timesteps_in_month = 2
    /\ \E i, j, k \in 1..MaxGrid :
          /\ c_args.weights["c1"][i] = 0 /\ c_args.grid[1][i] > 0
          /\ c_args.weights["c1"][j] > c_args.weights["c1"][k]
          /\ c_args.weights["c1"][k] > 0
          /\ c_args.grid[1][j] # c_args.grid[1][k]

\* A catchment whose weights total zero has raised.
C11_WitnessZeroTotal ==
    cpc = "raised" /\ c_idx = 1 /\ c_exc = "ZeroDivisionError"

(***************************************************************************)
(* Claims about the run's realisations (specification SpecRun).            *)
(***************************************************************************)
\* C12: in a run with two or more realisations each derives its own random
\* stream from the shared seed sequence: no two realisation ids of the run
\* start from the same generator state, neither in the sizing pass nor in
\* the simulation loop.
C12_OwnStreamPerRealisation ==
    \A a, b \in DOMAIN r_streams :
        a # b =>
            /\ r_streams[a].sizing # r_streams[b].sizing
            /\ (r_streams[a].simulation # NoStream
                    /\ r_streams[b].simulation # NoStream) =>
                  r_streams[a].simulation # r_streams[b].simulation

(***************************************************************************)
(* Claims about make_phi_interpolator (specification SpecInterpolator).    *)
(***************************************************************************)
\* An elevation trend is significant: elevation is available and one of
\* the two regressions has a p-value < 0.05.
TrendSignificant ==
    /\ i_args.include_elevation
    /\ \/ i_args.untransformed_regression.pvalue < SignificanceLevel
       \/ i_args.log_transformed_regression.pvalue < SignificanceLevel

\* C15: make_phi_interpolator returns a predictor and a log-transform flag
\* in each case: with a significant elevation trend an external-drift
\* kriging predictor, log-transformed exactly when the log regression has
\* the higher correlation coefficient; with elevation and no significant
\* regression, or with no elevation, an ordinary kriging predictor on
\* untransformed phi.
C15_PredictorInEveryCase ==
    (ipc \in {"returned", "raised"}) =>
        /\ ipc = "returned"
        /\ IF TrendSignificant
           THEN /\ i_result.predictor = "ExtDrift"
                /\ i_result.log_transformation
                      = IF i_args.log_transformed_regression.rvalue
                             > i_args.untransformed_regression.rvalue
                        THEN "True" ELSE "False"
                /\ i_result.data = IF i_result.log_transformation = "True"
                                   THEN "log" ELSE "untransformed"
           ELSE /\ i_result.predictor = "Ordinary"
                /\ i_result.log_transformation = "False"
                /\ i_result.data = "untransformed"

\* The same for every case but elevation with no significant regression.
PredictorUnlessInsignificant ==
    (i_args.include_elevation => TrendSignificant) => C15_PredictorInEveryCase

\* Elevation with no significant regression always raises.
InsignificantRaises ==
    (ipc \in {"returned", "raised"} /\ i_args.include_elevation
        /\ ~TrendSignificant) =>
        (ipc = "raised" /\ i_exc = "UnboundLocalError")

(***************************************************************************)
(* Claims about the probe allocation (specification SpecProbe).            *)
(***************************************************************************)
\* The timesteps of the years of a block: block_size years from the
\* block's start year, as far as the realisation goes.
BlockTimesteps(args, bid, bs) ==
    TimestepsInYears(args.start_year + bid * bs,
                     Min(args.start_year + (bid + 1) * bs,
                         args.start_year + args.number_of_years) - 1)

\* The output locations: the points and the catchments.
OutputLocations(args) == args.points.rows + args.catchments.rows

\* C16: the probe allocation made for a block in the sizing phase has as
\* many elements as the accumulation buffers of that block: (timesteps of
\* the block's years) x (number of output locations).
C16_ProbeSizedAsBlock ==
    dummy2.held =>
        dummy2.elements
            = BlockTimesteps(q_args, dummy2.block_id, dummy2.block_size)
                  * OutputLocations(q_args)

\* The timesteps alone, against the probe's own count of locations.
ProbeTimestepsAsBlock ==
    dummy2.held =>
        dummy2.elements
            = BlockTimesteps(q_args, dummy2.block_id, dummy2.block_size)
                  * q_args.points.rows * q_args.catchments.rows

====
